---------------------------- MODULE Spec2Model ----------------------------
(***************************************************************************)
(* A model of the XCF reader of package xcf (src/xcf.go): Decode,          *)
(* loadLayer, readImageData and decodeRLE reading a byte file through a    *)
(* seekable cursor.                                                        *)
(*                                                                         *)
(* The file is a sequence of bytes (0..255) and the cursor `pos` a 0-based *)
(* offset into it.  The reader behaves like *os.File (LoadFromFile) or     *)
(* bytes.Reader: Read returns what is left, with a nil error, when fewer   *)
(* bytes than asked for remain, and io.EOF only when nothing remains.      *)
(*                                                                         *)
(* A uint32 is kept as two 16-bit limbs <<hi, lo>>, so that every 32-bit   *)
(* value of the file is represented and uint32 arithmetic wraps as in Go.  *)
(* int is 64 bits wide (the amd64/arm64 builds).                           *)
(***************************************************************************)
EXTENDS Integers, Sequences, FiniteSets, TLC

VARIABLES
    file,            \* the bytes behind the io.ReadSeeker
    pos,             \* the reader's cursor
    readerKind,      \* "file" (*os.File) or "bytes" (bytes.Reader)
    pc,              \* where the program is
    ioFailed,        \* some Read/ReadFull/CopyN has returned a non-nil error
    \* Decode
    finalErr, canvas, header, layerPointers, ptr, layers, layerIndex,
    \* loadLayer
    layerHeader, layer, x, y, pixelPointer, propsStart,
    \* readImageData
    hierarchy, grid, tilePointers, rect, pix, buffer, bufCap, tileX, tileY,
    \* decodeRLE
    destLen, next, rbuf, rleErr, rleStart

ioVars    == <<file, pos, readerKind, ioFailed>>
decVars   == <<finalErr, canvas, header, layerPointers, ptr, layers, layerIndex>>
layVars   == <<layerHeader, layer, x, y, pixelPointer, propsStart>>
imgVars   == <<hierarchy, grid, tilePointers, rect, pix, bufCap, tileX, tileY>>
rleVars   == <<destLen, next, rbuf, rleErr, rleStart>>
vars      == <<ioVars, pc, decVars, layVars, imgVars, buffer, rleVars>>

(***************************************************************************)
(* Numbers                                                                 *)
(***************************************************************************)

Min(a, b) == IF a < b THEN a ELSE b

\* Every file of the model is shorter than this, so an offset or a length
\* with a non-zero high limb lies beyond the end of the file.
FarOffset == 256 * 256

U32Zero == <<0, 0>>
U32(n)  == <<0, n>>                       \* a uint32 below 2^16

\* int64(u) of a uint32, saturated at FarOffset
Offset(u) == IF u[1] = 0 THEN u[2] ELSE FarOffset

\* uint32 addition of a small constant, modulo 2^32
U32AddSmall(u, k) ==
    LET lo == u[2] + k
        hi == u[1] + (lo \div 65536)
    IN  <<hi % 65536, lo % 65536>>

\* uint32 multiplication by 3, modulo 2^32 (the wrapped product)
U32Mul3(u) ==
    LET lo == 3 * u[2]
        hi == 3 * u[1] + (lo \div 65536)
    IN  <<hi % 65536, lo % 65536>>

\* the exact product 3*u as <<overflow, hi, lo>>
Exact3(u) ==
    LET lo == 3 * u[2]
        hi == 3 * u[1] + (lo \div 65536)
    IN  <<hi \div 65536, hi % 65536, lo % 65536>>

\* int(u) / 64 and int(u) % 64 of a uint32
U32Div64(u) == u[1] * 1024 + (u[2] \div 64)
U32Mod64(u) == u[2] % 64

\* int32 from four big-endian bytes (two's complement)
S32(b1, b2, b3, b4) ==
    IF b1 < 128
    THEN ((b1 * 256 + b2) * 256 + b3) * 256 + b4
    ELSE -((((255 - b1) * 256 + (255 - b2)) * 256 + (255 - b3)) * 256 + (255 - b4)) - 1

(***************************************************************************)
(* The reader                                                              *)
(***************************************************************************)
Avail(f, p) == IF p >= Len(f) THEN 0 ELSE Len(f) - p

ByteAt(f, p) == f[p + 1]

\* io.ReadFull (binary.Read): all n bytes or an error; what is there is consumed
ReadFull(f, p, n) ==
    [ok |-> Avail(f, p) >= n, pos |-> p + Min(n, Avail(f, p))]

\* io.Reader.Read into a slice of n bytes: up to n bytes, io.EOF when none is left
ReadSomeBytes(f, p, n, kind) ==
    [n   |-> Min(n, Avail(f, p)),
     err |-> (n > 0 /\ Avail(f, p) = 0) \/ (n = 0 /\ Avail(f, p) = 0 /\ kind = "bytes"),
     pos |-> p + Min(n, Avail(f, p))]

\* io.CopyN(ioutil.Discard, r, n)
CopyN(f, p, n) ==
    [ok |-> Avail(f, p) >= n, pos |-> p + Min(n, Avail(f, p))]

\* binary.Read of one big-endian uint32 at offset p (p + 4 <= Len(f))
U32At(f, p) == <<f[p + 1] * 256 + f[p + 2], f[p + 3] * 256 + f[p + 4]>>

S32At(f, p) == S32(f[p + 1], f[p + 2], f[p + 3], f[p + 4])

\* r.Seek(int64(u), 0)
Seek(u) == Offset(u)

(***************************************************************************)
(* decodeRLE: one iteration of its loop                                    *)
(***************************************************************************)
\* A byte slice freshly made is all zero.  It is kept as the function from the
\* (1-based) indices written so far to their bytes; every other index holds 0.
Zeroed == [k \in {} |-> 0]

At(buf, k) == IF k \in DOMAIN buf THEN buf[k] ELSE 0

\* buf with the n bytes of f at offset p copied to index i (0-based) onwards
CopyInto(buf, i, f, p, n) ==
    [k \in (DOMAIN buf) \cup ((i + 1)..(i + n)) |->
        IF k > i /\ k <= i + n THEN f[p + (k - i)] ELSE buf[k]]

\* buf with value v written to the n indices from i (0-based) onwards
FillInto(buf, i, n, v) ==
    [k \in (DOMAIN buf) \cup ((i + 1)..(i + n)) |->
        IF k > i /\ k <= i + n THEN v ELSE buf[k]]

\* the run of identical bytes: for i := 0; i < count; i++ { dest[next] = value; next++ }
RunFill(buf, dLen, nxt, count, value) ==
    IF nxt + count > dLen
    THEN [kind |-> "panic", buf |-> buf, next |-> nxt]
    ELSE [kind |-> "ok", buf |-> FillInto(buf, nxt, count, value), next |-> nxt + count]

\* encoded.Read(dest[next : next+count]); next += count
RunCopy(f, p, kind, buf, cap, nxt, count) ==
    IF nxt + count > cap
    THEN [kind |-> "panic", buf |-> buf, next |-> nxt, pos |-> p]
    ELSE LET r == ReadSomeBytes(f, p, count, kind)
         IN  [kind |-> IF r.err THEN "err" ELSE "ok",
              buf  |-> CopyInto(buf, nxt, f, p, r.n),
              next |-> IF r.err THEN nxt ELSE nxt + count,
              pos  |-> r.pos]

\* count := int(op) + 1
ShortRunCountOffByOne(op) == op
ShortRunCount(op) == op + 1

\* The body of the loop of decodeRLE for the state (p, buf, nxt, rb): the result
\* kind is "ok" (go on), "err" (return err) or "panic" (index out of range).
RLEBody(f, p, kind, buf, cap, dLen, nxt, rb) ==
    LET r1 == ReadSomeBytes(f, p, 1, kind)
    IN  IF r1.err
        THEN [kind |-> "err", buf |-> buf, next |-> nxt, rbuf |-> rb, pos |-> r1.pos]
        ELSE
        LET op  == ByteAt(f, p)
            rb1 == [rb EXCEPT ![1] = op]
            p1  == r1.pos
        IN
        IF op <= 126 THEN
            \* short run of identical bytes
            LET r2  == ReadSomeBytes(f, p1, 1, kind)
                rb2 == IF r2.n = 1 THEN [rb1 EXCEPT ![2] = ByteAt(f, p1)] ELSE rb1
            IN  IF r2.err
                THEN [kind |-> "err", buf |-> buf, next |-> nxt, rbuf |-> rb2, pos |-> r2.pos]
                ELSE LET w == RunFill(buf, dLen, nxt, ShortRunCount(op), rb2[2])
                     IN  [kind |-> w.kind, buf |-> w.buf, next |-> w.next,
                          rbuf |-> rb2, pos |-> r2.pos]
        ELSE IF op = 127 THEN
            \* long run of identical bytes
            LET r2  == ReadSomeBytes(f, p1, 3, kind)
                rb2 == [k \in 1..4 |->
                          IF k >= 2 /\ k - 1 <= r2.n THEN ByteAt(f, p1 + k - 2) ELSE rb1[k]]
            IN  IF r2.err
                THEN [kind |-> "err", buf |-> buf, next |-> nxt, rbuf |-> rb2, pos |-> r2.pos]
                ELSE LET w == RunFill(buf, dLen, nxt, rb2[2] * 256 + rb2[3], rb2[4])
                     IN  [kind |-> w.kind, buf |-> w.buf, next |-> w.next,
                          rbuf |-> rb2, pos |-> r2.pos]
        ELSE IF op = 128 THEN
            \* long run of different bytes
            LET r2  == ReadSomeBytes(f, p1, 2, kind)
                rb2 == [k \in 1..4 |->
                          IF k >= 2 /\ k - 1 <= r2.n THEN ByteAt(f, p1 + k - 2) ELSE rb1[k]]
            IN  IF r2.err
                THEN [kind |-> "err", buf |-> buf, next |-> nxt, rbuf |-> rb2, pos |-> r2.pos]
                ELSE LET c == RunCopy(f, r2.pos, kind, buf, cap, nxt, rb2[2] * 256 + rb2[3])
                     IN  [kind |-> c.kind, buf |-> c.buf, next |-> c.next,
                          rbuf |-> rb2, pos |-> c.pos]
        ELSE
            \* short run of different bytes
            LET c == RunCopy(f, p1, kind, buf, cap, nxt, 256 - op)
            IN  [kind |-> c.kind, buf |-> c.buf, next |-> c.next, rbuf |-> rb1, pos |-> c.pos]

\* for next < len(dest) { ... }; return nil
decodeRLE ==
    /\ pc = "rle"
    /\ IF next >= destLen
       THEN /\ pc' = "rleRet"
            /\ rleErr' = "nil"
            /\ UNCHANGED <<pos, buffer, next, rbuf, ioFailed>>
       ELSE LET r == RLEBody(file, pos, readerKind, buffer, bufCap, destLen, next, rbuf)
            IN  /\ pos' = r.pos
                /\ buffer' = r.buf
                /\ next' = r.next
                /\ rbuf' = r.rbuf
                /\ ioFailed' = (ioFailed \/ r.kind = "err")
                /\ rleErr' = IF r.kind = "err" THEN "EOF" ELSE rleErr
                /\ pc' = CASE r.kind = "ok"    -> "rle"
                           [] r.kind = "err"   -> "rleRet"
                           [] r.kind = "panic" -> "panic"
    /\ UNCHANGED <<file, readerKind, decVars, layVars, imgVars, destLen, rleStart>>


(***************************************************************************)
(* Values of the variables a specification does not use                    *)
(***************************************************************************)
ZeroCanvas == [Width |-> U32Zero, Height |-> U32Zero, Layers |-> <<>>]
ZeroHeader == [Width |-> U32Zero, Height |-> U32Zero, ColorFormat |-> U32Zero]
ZeroLayer  == [Visible |-> FALSE, Opacity |-> 0]
ZeroHier   == [BytesPerPixel |-> U32Zero, FirstLevelPointer |-> U32Zero]
ZeroGrid   == [tileCountX |-> 0, tileCountY |-> 0,
               rightMostTileWidth |-> 0, bottomMostTileHeight |-> 0]
ZeroRect   == [MinX |-> 0, MinY |-> 0, Width |-> U32Zero, Height |-> U32Zero]

ProgramStart ==
    /\ pos = 0
    /\ ioFailed = FALSE
    /\ finalErr = "nil" /\ canvas = ZeroCanvas /\ header = ZeroHeader
    /\ layerPointers = <<>> /\ ptr = U32Zero /\ layers = <<>> /\ layerIndex = 0
    /\ layerHeader = ZeroHeader /\ layer = ZeroLayer /\ x = 0 /\ y = 0
    /\ pixelPointer = U32Zero /\ propsStart = 0
    /\ hierarchy = ZeroHier /\ grid = ZeroGrid /\ tilePointers = <<>>
    /\ rect = ZeroRect /\ pix = Zeroed /\ tileX = 0 /\ tileY = 0
    /\ next = 0 /\ rbuf = <<0, 0, 0, 0>> /\ rleErr = "nil" /\ rleStart = 0

(***************************************************************************)
(* Constants of the format                                                 *)
(***************************************************************************)
MagicID == <<103, 105, 109, 112, 32, 120, 99, 102, 32>>      \* "gimp xcf "
Version == <<102, 105, 108, 101>>                            \* "file"
HeaderSize == 26

rgb == 0
rgbNoAlpha == 0
rgbAlpha == 1
propEnd == 0
propColormap == 1
propOpacity == 6
propVisible == 8
propOffsets == 15
propCompression == 17
rleCompression == 1
TileSize == 64

(***************************************************************************)
(* Decode                                                                  *)
(***************************************************************************)
\* Decode returns its named results: the zero Canvas and finalErr
DecodeFails(err) ==
    /\ finalErr' = err
    /\ pc' = "done"
    /\ UNCHANGED canvas

\* binary.Read of the fileHeader and the checks of magic, version and color format
DecodeHeader ==
    /\ pc = "start"
    /\ LET r == ReadFull(file, pos, HeaderSize)
       IN  /\ pos' = r.pos
           /\ ioFailed' = (ioFailed \/ ~r.ok)
           /\ IF ~r.ok
              THEN DecodeFails("error reading header") /\ UNCHANGED header
              ELSE /\ header' = [Width       |-> U32At(file, pos + 14),
                                 Height      |-> U32At(file, pos + 18),
                                 ColorFormat |-> U32At(file, pos + 22)]
                   /\ IF SubSeq(file, pos + 1, pos + 9) # MagicID
                      THEN DecodeFails("wrong magic ID")
                      ELSE IF SubSeq(file, pos + 10, pos + 13) # Version
                      THEN DecodeFails("unsupported file version")
                      ELSE IF U32At(file, pos + 22) # U32(rgb)
                      THEN DecodeFails("unsupported color format")
                      ELSE pc' = "props" /\ UNCHANGED <<finalErr, canvas>>
    /\ UNCHANGED <<file, readerKind, layerPointers, ptr, layers, layerIndex,
                   layVars, imgVars, buffer, rleVars>>

\* compression[0] != rleCompression
CompressionAlsoRaw(b) == b <= rleCompression
CompressionSupported(b) == b = rleCompression

\* int64(3*colorCount), the product taken in uint32
ColormapSkip(colorCount) == Offset(U32Mul3(colorCount))

\* one iteration of the property loop of Decode
DecodeProperty ==
    /\ pc = "props"
    /\ LET h == ReadFull(file, pos, 8)
       IN  IF ~h.ok
           THEN /\ pos' = h.pos /\ ioFailed' = TRUE
                /\ DecodeFails("error reading property header")
           ELSE
           LET tag    == U32At(file, pos)
               length == U32At(file, pos + 4)
               p1     == h.pos
           IN
           IF tag = U32(propEnd) THEN
               /\ pos' = p1 /\ pc' = "ptrRead"
               /\ UNCHANGED <<ioFailed, finalErr, canvas>>
           ELSE IF tag = U32(propColormap) THEN
               LET c == ReadFull(file, p1, 4)
               IN  IF ~c.ok
                   THEN /\ pos' = c.pos /\ ioFailed' = TRUE
                        /\ DecodeFails("unable to read number of colors in color map")
                   ELSE LET s == CopyN(file, c.pos, ColormapSkip(U32At(file, p1)))
                        IN  /\ pos' = s.pos
                            /\ ioFailed' = (ioFailed \/ ~s.ok)
                            /\ IF ~s.ok
                               THEN DecodeFails("error skipping color map")
                               ELSE pc' = "props" /\ UNCHANGED <<finalErr, canvas>>
           ELSE IF tag = U32(propCompression) THEN
               LET c == ReadSomeBytes(file, p1, 1, readerKind)
               IN  /\ pos' = c.pos
                   /\ ioFailed' = (ioFailed \/ c.err)
                   /\ IF c.err
                      THEN DecodeFails("error reading compression")
                      ELSE IF ~CompressionSupported(ByteAt(file, p1))
                      THEN DecodeFails("unsupported compression")
                      ELSE pc' = "props" /\ UNCHANGED <<finalErr, canvas>>
           ELSE
               \* skipProperty: its error is stored and the loop goes on
               LET s == CopyN(file, p1, Offset(length))
               IN  /\ pos' = s.pos
                   /\ ioFailed' = (ioFailed \/ ~s.ok)
                   /\ finalErr' = IF s.ok THEN finalErr ELSE "unable to skip property"
                   /\ pc' = "props"
                   /\ UNCHANGED canvas
    /\ UNCHANGED <<file, readerKind, header, layerPointers, ptr, layers, layerIndex,
                   layVars, imgVars, buffer, rleVars>>

\* binary.Read(r, endianness, &ptr), its error dropped
DecodeLayerPointerRead ==
    /\ pc = "ptrRead"
    /\ LET r == ReadFull(file, pos, 4)
       IN  /\ pos' = r.pos
           /\ ioFailed' = (ioFailed \/ ~r.ok)
           /\ ptr' = IF r.ok THEN U32At(file, pos) ELSE ptr
    /\ pc' = "ptrTest"
    /\ UNCHANGED <<file, readerKind, finalErr, canvas, header, layerPointers, layers,
                   layerIndex, layVars, imgVars, buffer, rleVars>>

\* The list of layer pointers grows without limit in the program; the model keeps
\* its first MaxLayerPointers entries.
MaxLayerPointers == 3

\* if ptr == 0 { break }; layerPointers = append(layerPointers, ptr)
DecodeLayerPointerTest ==
    /\ pc = "ptrTest"
    /\ IF ptr = U32Zero
       THEN pc' = "layers" /\ UNCHANGED layerPointers
       ELSE /\ pc' = "ptrRead"
            /\ layerPointers' = IF Len(layerPointers) < MaxLayerPointers
                                THEN Append(layerPointers, ptr)
                                ELSE layerPointers
    /\ UNCHANGED <<ioVars, finalErr, canvas, header, ptr, layers, layerIndex,
                   layVars, imgVars, buffer, rleVars>>

\* return Canvas{header.Width, header.Height, layers}, nil
DecodeReturn ==
    /\ pc = "layers"
    /\ layerIndex >= Len(layerPointers)
    /\ canvas' = [Width |-> header.Width, Height |-> header.Height, Layers |-> layers]
    /\ finalErr' = "nil"
    /\ pc' = "done"
    /\ UNCHANGED <<ioVars, header, layerPointers, ptr, layers, layerIndex,
                   layVars, imgVars, buffer, rleVars>>

(***************************************************************************)
(* loadLayer                                                               *)
(***************************************************************************)
\* loadLayer returns its error and Decode returns "error reading layers"
LayerFails == DecodeFails("error reading layers")

\* readString: the cursor after it and whether it failed
readString(f, p, kind) ==
    LET l == ReadFull(f, p, 4)
    IN  IF ~l.ok THEN [ok |-> FALSE, pos |-> l.pos]
        ELSE IF U32At(f, p) = U32Zero THEN [ok |-> TRUE, pos |-> l.pos]
        ELSE LET d == ReadSomeBytes(f, l.pos, Offset(U32At(f, p)), kind)
             IN  [ok |-> ~d.err, pos |-> d.pos]

\* for _, ptr := range layerPointers: the call of loadLayer up to its property loop
loadLayerBegin ==
    /\ pc = "layers"
    /\ layerIndex < Len(layerPointers)
    /\ LET p0 == Seek(layerPointers[layerIndex + 1])
           h  == ReadFull(file, p0, 12)
       IN  IF ~h.ok
           THEN /\ pos' = h.pos /\ ioFailed' = TRUE /\ LayerFails
                /\ UNCHANGED <<layerHeader, layer, x, y, propsStart>>
           ELSE
           LET lh == [Width       |-> U32At(file, p0),
                      Height      |-> U32At(file, p0 + 4),
                      ColorFormat |-> U32At(file, p0 + 8)]
           IN  /\ layerHeader' = lh
               /\ IF ~(lh.ColorFormat = U32(rgbAlpha) \/ lh.ColorFormat = U32(rgbNoAlpha))
                  THEN /\ pos' = h.pos /\ LayerFails
                       /\ UNCHANGED <<ioFailed, layer, x, y, propsStart>>
                  ELSE LET n == readString(file, h.pos, readerKind)
                       IN  /\ pos' = n.pos
                           /\ ioFailed' = (ioFailed \/ ~n.ok)
                           /\ IF ~n.ok
                              THEN LayerFails /\ UNCHANGED <<layer, x, y, propsStart>>
                              ELSE /\ layer' = [Visible |-> TRUE, Opacity |-> 0]
                                   /\ x' = 0 /\ y' = 0
                                   /\ propsStart' = n.pos
                                   /\ pc' = "layerProps"
                                   /\ UNCHANGED <<finalErr, canvas>>
    /\ UNCHANGED <<file, readerKind, header, layerPointers, ptr, layers, layerIndex,
                   pixelPointer, imgVars, buffer, rleVars>>

\* layer.Opacity = uint8(opacity)
OpacityClamped(v) == IF v[1] > 0 \/ v[2] > 255 THEN 255 ELSE v[2]
OpacityOf(v) == v[2] % 256

\* one iteration of the property loop of loadLayer
loadLayerProperty ==
    /\ pc = "layerProps"
    /\ LET h == ReadFull(file, pos, 8)
       IN  IF ~h.ok
           THEN /\ pos' = h.pos /\ ioFailed' = TRUE /\ LayerFails
                /\ UNCHANGED <<layer, x, y>>
           ELSE
           LET tag    == U32At(file, pos)
               length == U32At(file, pos + 4)
               p1     == h.pos
           IN
           IF tag = U32(propEnd) THEN
               /\ pos' = p1 /\ pc' = "layerPtrs"
               /\ UNCHANGED <<ioFailed, finalErr, canvas, layer, x, y>>
           ELSE IF tag = U32(propOffsets) THEN
               LET rx == ReadFull(file, p1, 4)
                   ry == ReadFull(file, rx.pos, 4)
               IN  IF ~rx.ok
                   THEN /\ pos' = rx.pos /\ ioFailed' = TRUE /\ LayerFails
                        /\ UNCHANGED <<layer, x, y>>
                   ELSE /\ x' = S32At(file, p1)
                        /\ pos' = ry.pos
                        /\ ioFailed' = (ioFailed \/ ~ry.ok)
                        /\ UNCHANGED layer
                        /\ IF ~ry.ok
                           THEN LayerFails /\ UNCHANGED y
                           ELSE /\ y' = S32At(file, rx.pos)
                                /\ pc' = "layerProps"
                                /\ UNCHANGED <<finalErr, canvas>>
           ELSE IF tag = U32(propVisible) THEN
               LET v == ReadFull(file, p1, 4)
               IN  /\ pos' = v.pos
                   /\ ioFailed' = (ioFailed \/ ~v.ok)
                   /\ UNCHANGED <<x, y>>
                   /\ IF ~v.ok
                      THEN LayerFails /\ UNCHANGED layer
                      ELSE /\ layer' = [layer EXCEPT !.Visible = (U32At(file, p1) # U32Zero)]
                           /\ pc' = "layerProps"
                           /\ UNCHANGED <<finalErr, canvas>>
           ELSE IF tag = U32(propOpacity) THEN
               LET v == ReadFull(file, p1, 4)
               IN  /\ pos' = v.pos
                   /\ ioFailed' = (ioFailed \/ ~v.ok)
                   /\ UNCHANGED <<x, y>>
                   /\ IF ~v.ok
                      THEN LayerFails /\ UNCHANGED layer
                      ELSE /\ layer' = [layer EXCEPT !.Opacity = OpacityOf(U32At(file, p1))]
                           /\ pc' = "layerProps"
                           /\ UNCHANGED <<finalErr, canvas>>
           ELSE
               LET s == CopyN(file, p1, Offset(length))
               IN  /\ pos' = s.pos
                   /\ ioFailed' = (ioFailed \/ ~s.ok)
                   /\ UNCHANGED <<layer, x, y>>
                   /\ IF ~s.ok
                      THEN LayerFails
                      ELSE pc' = "layerProps" /\ UNCHANGED <<finalErr, canvas>>
    /\ UNCHANGED <<file, readerKind, header, layerPointers, ptr, layers, layerIndex,
                   layerHeader, pixelPointer, propsStart, imgVars, buffer, rleVars>>

\* the pixel pointer and the mask pointer, then the call of readImageData
loadLayerPointers ==
    /\ pc = "layerPtrs"
    /\ LET pp == ReadFull(file, pos, 4)
           mp == ReadFull(file, pp.pos, 4)
       IN  IF ~pp.ok
           THEN /\ pos' = pp.pos /\ ioFailed' = TRUE /\ LayerFails
                /\ UNCHANGED pixelPointer
           ELSE /\ pixelPointer' = U32At(file, pos)
                /\ pos' = mp.pos
                /\ ioFailed' = (ioFailed \/ ~mp.ok)
                /\ IF ~mp.ok
                   THEN LayerFails
                   ELSE pc' = "hierarchy" /\ UNCHANGED <<finalErr, canvas>>
    /\ UNCHANGED <<file, readerKind, header, layerPointers, ptr, layers, layerIndex,
                   layerHeader, layer, x, y, propsStart, imgVars, buffer, rleVars>>

\* layers = append(layers, layer)
loadLayerReturn ==
    /\ pc = "layerDone"
    /\ layers' = Append(layers, [Visible |-> layer.Visible, Opacity |-> layer.Opacity,
                                 Rect |-> rect, Pix |-> pix])
    /\ layerIndex' = layerIndex + 1
    /\ pc' = "layers"
    /\ UNCHANGED <<ioVars, finalErr, canvas, header, layerPointers, ptr,
                   layVars, imgVars, buffer, rleVars>>

(***************************************************************************)
(* readImageData                                                           *)
(***************************************************************************)
\* r.Seek(offset), its error dropped, and binary.Read of the hierarchyHeader
readImageDataHeader ==
    /\ pc = "hierarchy"
    /\ LET p0 == Seek(pixelPointer)
           h  == ReadFull(file, p0, 16)
       IN  /\ pos' = h.pos
           /\ ioFailed' = (ioFailed \/ ~h.ok)
           /\ IF ~h.ok
              THEN LayerFails /\ UNCHANGED hierarchy
              ELSE /\ hierarchy' = [BytesPerPixel     |-> U32At(file, p0 + 8),
                                    FirstLevelPointer |-> U32At(file, p0 + 12)]
                   /\ pc' = "levelPtrs"
                   /\ UNCHANGED <<finalErr, canvas>>
    /\ UNCHANGED <<file, readerKind, header, layerPointers, ptr, layers, layerIndex,
                   layVars, grid, tilePointers, rect, pix, bufCap, tileX, tileY,
                   buffer, rleVars>>

\* one iteration of the loop over the unused level pointers
readImageDataLevelPointer ==
    /\ pc = "levelPtrs"
    /\ LET r == ReadFull(file, pos, 4)
       IN  /\ pos' = r.pos
           /\ ioFailed' = (ioFailed \/ ~r.ok)
           /\ IF ~r.ok
              THEN LayerFails
              ELSE /\ pc' = IF U32At(file, pos) = U32Zero THEN "level" ELSE "levelPtrs"
                   /\ UNCHANGED <<finalErr, canvas>>
    /\ UNCHANGED <<file, readerKind, header, layerPointers, ptr, layers, layerIndex,
                   layVars, imgVars, buffer, rleVars>>

\* tileCountX := int(layerHeader.Width+63) / 64, the sum taken in uint32
TileCount(size) == U32Div64(U32AddSmall(size, TileSize - 1))

\* rightMostTileWidth := int(layerHeader.Width) % 64, 64 when that is 0
EdgeTileSize(size) == IF U32Mod64(size) = 0 THEN TileSize ELSE U32Mod64(size)

\* tileCountX * tileCountY, saturated at FarOffset (more than a file holds)
TileTotal(cx, cy) ==
    IF cx = 0 \/ cy = 0 THEN 0
    ELSE IF cx >= FarOffset \/ cy >= FarOffset THEN FarOffset
    ELSE Min(cx * cy, FarOffset)

\* make([]byte, 64*64*header.BytesPerPixel), for BytesPerPixel below 2^16
BufferCap(bpp) == TileSize * TileSize * bpp[2]

\* the first level: its size, the tile grid, the tile pointers, the image, the buffer
readImageDataLevel ==
    /\ pc = "level"
    /\ LET p0 == Seek(hierarchy.FirstLevelPointer)
           wh == ReadFull(file, p0, 8)
           cx == TileCount(layerHeader.Width)
           cy == TileCount(layerHeader.Height)
           n  == TileTotal(cx, cy)
           tp == ReadFull(file, wh.pos, 4 * (n + 1))
       IN  IF ~wh.ok
           THEN /\ pos' = wh.pos /\ ioFailed' = TRUE /\ LayerFails
                /\ UNCHANGED <<grid, tilePointers, rect, pix, buffer, bufCap, tileX, tileY>>
           ELSE /\ grid' = [tileCountX |-> cx, tileCountY |-> cy,
                            rightMostTileWidth   |-> EdgeTileSize(layerHeader.Width),
                            bottomMostTileHeight |-> EdgeTileSize(layerHeader.Height)]
                /\ pos' = tp.pos
                /\ ioFailed' = (ioFailed \/ ~tp.ok)
                /\ IF ~tp.ok
                   THEN /\ LayerFails
                        /\ UNCHANGED <<tilePointers, rect, pix, buffer, bufCap, tileX, tileY>>
                   ELSE /\ tilePointers' = [k \in 1..n |-> U32At(file, wh.pos + 4 * (k - 1))]
                        /\ rect' = [MinX |-> x, MinY |-> y,
                                    Width |-> layerHeader.Width, Height |-> layerHeader.Height]
                        /\ pix' = Zeroed
                        /\ buffer' = Zeroed
                        /\ bufCap' = BufferCap(hierarchy.BytesPerPixel)
                        /\ tileX' = 0 /\ tileY' = 0
                        /\ pc' = "tile"
                        /\ UNCHANGED <<finalErr, canvas>>
    /\ UNCHANGED <<file, readerKind, header, layerPointers, ptr, layers, layerIndex,
                   layVars, hierarchy, rleVars>>

\* w, h of the tile (tx, ty)
TileW(tx) == IF tx = grid.tileCountX - 1 THEN grid.rightMostTileWidth ELSE TileSize
TileH(ty) == IF ty = grid.tileCountY - 1 THEN grid.bottomMostTileHeight ELSE TileSize

\* the head of the tile loops: the next tile's slice of the buffer, the call of
\* decodeRLE on the cursor as it stands; or the end of the loops
readImageDataTile ==
    /\ pc = "tile"
    /\ IF tileY >= grid.tileCountY \/ grid.tileCountX = 0
       THEN /\ pc' = "layerDone"
            /\ UNCHANGED <<destLen, next, rbuf, rleErr, rleStart>>
       ELSE LET destByteCount == TileW(tileX) * TileH(tileY) * hierarchy.BytesPerPixel[2]
            IN  /\ destLen' = destByteCount
                /\ next' = 0
                /\ rbuf' = <<0, 0, 0, 0>>
                /\ rleErr' = "nil"
                /\ rleStart' = pos
                /\ pc' = IF destByteCount > bufCap THEN "panic" ELSE "rle"
    /\ UNCHANGED <<ioVars, decVars, layVars, imgVars, buffer>>

\* the data indices the de-planarization of a w x h tile reads
ScatterReads(w, h, planes, ofs) ==
    {d + c * ofs : d \in 0..(w * h - 1), c \in 0..(planes - 1)}

\* rgba.Pix after the tile at (left, top) is copied from data, 1-based indices
ScatterInto(p, data, stride, left, top, w, h, alpha, ofs) ==
    LET idx == {stride * (top + j) + 4 * (left + i) + c + 1 :
                    i \in 0..(w - 1), j \in 0..(h - 1), c \in 0..3}
        val(k) ==
            LET c == (k - 1) % 4
                i == (((k - 1) % stride) \div 4) - left
                j == ((k - 1) \div stride) - top
                d == j * w + i
            IN  IF c = 3 /\ ~alpha THEN 255 ELSE At(data, d + c * ofs + 1)
    IN  [k \in (DOMAIN p) \cup idx |-> IF k \in idx THEN val(k) ELSE p[k]]

\* after decodeRLE: its error returned, or the tile copied into the image
readImageDataScatter ==
    /\ pc = "rleRet"
    /\ IF rleErr # "nil"
       THEN LayerFails /\ UNCHANGED <<pix, tileX, tileY>>
       ELSE LET w      == TileW(tileX)
                h      == TileH(tileY)
                alpha  == layerHeader.ColorFormat = U32(rgbAlpha)
                planes == IF alpha THEN 4 ELSE 3
                ofs    == destLen \div planes
                stride == 4 * layerHeader.Width[2]
                last   == stride * (tileY * TileSize + h - 1)
                              + 4 * (tileX * TileSize + w - 1) + 3
            IN  IF \/ \E d \in ScatterReads(w, h, planes, ofs) : d >= destLen
                   \/ last >= stride * layerHeader.Height[2]
                THEN pc' = "panic" /\ UNCHANGED <<finalErr, canvas, pix, tileX, tileY>>
                ELSE /\ pix' = ScatterInto(pix, buffer, stride, tileX * TileSize,
                                           tileY * TileSize, w, h, alpha, ofs)
                     /\ tileX' = IF tileX + 1 < grid.tileCountX THEN tileX + 1 ELSE 0
                     /\ tileY' = IF tileX + 1 < grid.tileCountX THEN tileY ELSE tileY + 1
                     /\ pc' = "tile"
                     /\ UNCHANGED <<finalErr, canvas>>
    /\ UNCHANGED <<ioVars, header, layerPointers, ptr, layers, layerIndex, layVars,
                   hierarchy, grid, tilePointers, rect, bufCap, buffer, rleVars>>

SeqsUpTo(S, n) == UNION {[1..k -> S] : k \in 0..n}

(***************************************************************************)
(* The input files of the model                                            *)
(***************************************************************************)
BE16(n) == <<n \div 256, n % 256>>
Bytes32(u) == BE16(u[1]) \o BE16(u[2])
B32(n) == Bytes32(U32(n))

RECURSIVE Concat(_)
Concat(ss) == IF ss = <<>> THEN <<>> ELSE Head(ss) \o Concat(Tail(ss))

BadMagic   == <<103, 105, 109, 112, 32, 120, 99, 102, 33>>   \* "gimp xcf!"
BadVersion == <<118, 48, 48, 49>>                            \* "v001"

FileHeaderBytes(magic, version, width, height, color) ==
    magic \o version \o <<0>> \o Bytes32(width) \o Bytes32(height) \o B32(color)

PropertyBytes(tag, length, payload) == B32(tag) \o Bytes32(length) \o payload
EndBytes == PropertyBytes(propEnd, U32Zero, <<>>)

\* a color count whose product by 3 does not fit 32 bits: 3 * 0x55555556 = 2^32 + 2
WrappingCount == <<21845, 21846>>

TopProps ==
    { PropertyBytes(propCompression, U32(1), <<rleCompression>>),
      PropertyBytes(propCompression, U32(1), <<0>>),
      PropertyBytes(propCompression, U32(1), <<2>>),
      PropertyBytes(propColormap, U32(10), B32(2) \o <<1, 2, 3, 4, 5, 6>>),
      PropertyBytes(propColormap, U32(5), B32(1) \o <<7, 8, 9>>),
      PropertyBytes(propColormap, U32(6), Bytes32(WrappingCount) \o <<0, 0>>),
      PropertyBytes(19, U32(2), <<72, 72>>),
      PropertyBytes(20, <<65535, 65535>>, <<1>>) }

LayerProps ==
    { PropertyBytes(propOffsets, U32(8), B32(3) \o <<255, 255, 255, 254>>),
      PropertyBytes(propOffsets, U32(8), <<128, 0, 0, 0>> \o <<127, 255, 255, 255>>),
      PropertyBytes(propVisible, U32(4), B32(0)),
      PropertyBytes(propVisible, U32(4), <<1, 0, 0, 0>>),
      PropertyBytes(propOpacity, U32(4), B32(255)),
      PropertyBytes(propOpacity, U32(4), B32(384)),
      PropertyBytes(7, U32(3), <<0, 0, 0>>),
      PropertyBytes(propCompression, <<1, 0>>, <<1>>) }

\* the bytes of one tile: n = planes * plane bytes, in one of three encodings
LiteralRun(b) ==
    IF Len(b) = 0 THEN <<>>
    ELSE IF Len(b) <= 127 THEN <<256 - Len(b)>> \o b
    ELSE <<128>> \o BE16(Len(b)) \o b

IdenticalRun(m, v) ==
    IF m <= 127 THEN <<m - 1, v>> ELSE <<127>> \o BE16(m) \o <<v>>

TileStream(style, plane, planes, seed) ==
    CASE style = "literal" ->
             LiteralRun([k \in 1..(plane * planes) |-> (7 * k + seed) % 256])
      [] style = "runs" ->
             Concat([c \in 1..planes |-> IdenticalRun(plane, (50 * c + seed) % 256)])
      [] style = "long" -> <<126, 9>>

CeilDiv(a, b) == (a + b - 1) \div b
Edge(a) == IF a % TileSize = 0 THEN TileSize ELSE a % TileSize

\* the streams of the tiles of a w x h layer, in row-major order
TileStreams(w, h, planes, style) ==
    LET cx == CeilDiv(w, TileSize)
        cy == CeilDiv(h, TileSize)
    IN  [k \in 1..(cx * cy) |->
            LET tx == (k - 1) % cx
                ty == (k - 1) \div cx
                tw == IF tx = cx - 1 THEN Edge(w) ELSE TileSize
                th == IF ty = cy - 1 THEN Edge(h) ELSE TileSize
            IN  TileStream(style, tw * th, planes, 13 * k)]

RECURSIVE SumLen(_, _)
SumLen(ss, k) == IF k = 0 THEN 0 ELSE Len(ss[k]) + SumLen(ss, k - 1)

NameBytes(n) == B32(n) \o [k \in 1..n |-> IF k = n THEN 0 ELSE 97]

\* A layer written at offset off.  c.W, c.H: the sizes in the headers; c.w, c.h:
\* the size the tiles are written for; c.gap: bytes between the tile pointers
\* and the first tile.
LayerBytes(off, c) ==
    LET planes  == IF c.fmt = rgbNoAlpha THEN 3 ELSE 4
        streams == TileStreams(c.w, c.h, planes, c.style)
        head    == Bytes32(c.W) \o Bytes32(c.H) \o B32(c.fmt)
                     \o NameBytes(c.nameLen) \o c.props \o EndBytes
        hp      == off + Len(head) + 8
        lp      == hp + 16 + 4 * c.levels + 4
        data    == lp + 8 + 4 * (Len(streams) + 1) + c.gap
    IN  head \o B32(hp) \o B32(0)
             \o Bytes32(c.W) \o Bytes32(c.H) \o B32(c.bpp) \o B32(lp)
             \o Concat([k \in 1..c.levels |-> B32(1)]) \o B32(0)
             \o Bytes32(c.W) \o Bytes32(c.H)
             \o Concat([k \in 1..Len(streams) |-> B32(data + SumLen(streams, k - 1))])
             \o B32(0)
             \o [k \in 1..c.gap |-> 0]
             \o Concat(streams)

\* a whole file: header, properties, the layer offsets, n layers alike
FileBytes(magic, version, color, props, n, c) ==
    LET head == FileHeaderBytes(magic, version, U32(8), U32(6), color) \o props \o EndBytes
        base == Len(head) + 4 * (n + 1)
        size == Len(LayerBytes(0, c))
    IN  head \o Concat([k \in 1..n |-> B32(base + (k - 1) * size)]) \o B32(0)
             \o Concat([k \in 1..n |-> LayerBytes(base + (k - 1) * size, c)])

Shape(W, H) == [W |-> U32(W), H |-> U32(H), w |-> W, h |-> H]

\* a layer whose width + 63 does not fit 32 bits; no tile is written for it
WideShape == [W |-> <<65535, 65535>>, H |-> U32(1), w |-> 0, h |-> 0]

LayerConfig(shape, fmt, bpp, nameLen, props, levels, gap, style) ==
    [W |-> shape.W, H |-> shape.H, w |-> shape.w, h |-> shape.h, fmt |-> fmt,
     bpp |-> bpp, nameLen |-> nameLen, props |-> props, levels |-> levels,
     gap |-> gap, style |-> style]

DefaultLayer == LayerConfig(Shape(2, 1), rgbAlpha, 4, 3, <<>>, 0, 0, "literal")

MaxProps      == 2
MaxLayerProps == 2
MaxLayers     == 2

HeaderFiles ==
    { FileBytes(m, v, c, p, 1, DefaultLayer) :
        m \in {MagicID, BadMagic}, v \in {Version, BadVersion}, c \in {rgb, 1, 2},
        p \in {<<>>, PropertyBytes(propCompression, U32(1), <<0>>)} }

PropertyFiles ==
    { FileBytes(MagicID, Version, rgb, Concat(ps), 1, DefaultLayer) :
        ps \in SeqsUpTo(TopProps, MaxProps) }

LayerFiles ==
    { FileBytes(MagicID, Version, rgb, <<>>, n,
                LayerConfig(Shape(1, 1), rgbAlpha, 4, nl, Concat(ps), 0, 0, "runs")) :
        n \in 0..MaxLayers, nl \in {0, 1, 3}, ps \in SeqsUpTo(LayerProps, MaxLayerProps) }

Shapes == {Shape(1, 1), Shape(2, 1), Shape(2, 2), Shape(64, 1), Shape(65, 1),
           Shape(1, 65), Shape(65, 2), WideShape}

PixelFiles ==
    { FileBytes(MagicID, Version, rgb, <<>>, 1,
                LayerConfig(s, fmt, bpp, 1, <<>>, lv, gap, style)) :
        s \in Shapes, fmt \in {rgbNoAlpha, rgbAlpha, 2}, bpp \in {0, 3, 4, 5},
        lv \in {0, 1}, gap \in {0, 1}, style \in {"literal", "runs", "long"} }

TruncatedFiles ==
    LET f == FileBytes(MagicID, Version, rgb,
                       PropertyBytes(19, U32(2), <<72, 72>>), MaxLayers,
                       LayerConfig(Shape(2, 1), rgbAlpha, 4, 3,
                                   PropertyBytes(propOpacity, U32(4), B32(255)),
                                   1, 0, "literal"))
    IN  {SubSeq(f, 1, k) : k \in 0..Len(f)}

InputFiles == HeaderFiles \cup PropertyFiles \cup LayerFiles \cup PixelFiles
                  \cup TruncatedFiles

(***************************************************************************)
(* Spec: Decode on the input files                                         *)
(***************************************************************************)
Init ==
    /\ file \in InputFiles
    /\ readerKind \in {"file", "bytes"}
    /\ pc = "start"
    /\ buffer = Zeroed /\ bufCap = 0
    /\ destLen = 0
    /\ ProgramStart

Next ==
    \/ DecodeHeader
    \/ DecodeProperty
    \/ DecodeLayerPointerRead
    \/ DecodeLayerPointerTest
    \/ DecodeReturn
    \/ loadLayerBegin
    \/ loadLayerProperty
    \/ loadLayerPointers
    \/ loadLayerReturn
    \/ readImageDataHeader
    \/ readImageDataLevelPointer
    \/ readImageDataLevel
    \/ readImageDataTile
    \/ decodeRLE
    \/ readImageDataScatter

Spec == Init /\ [][Next]_vars

\* Decode is one sequential call: a step that can be taken is taken
FairSpec == Spec /\ WF_vars(Next)

(***************************************************************************)
(* SpecRLE: decodeRLE alone, on every short stream over RLEBytes and every *)
(* destination dest = buffer[:destLen] of a zeroed buffer of MaxDest bytes *)
(***************************************************************************)
MaxEnc  == 4
MaxDest == 3
RLEBytes == {0, 1, 127, 128, 254, 255}

InitRLE ==
    /\ file \in SeqsUpTo(RLEBytes, MaxEnc)
    /\ readerKind \in {"file", "bytes"}
    /\ pc = "rle"
    /\ buffer = Zeroed /\ bufCap = MaxDest
    /\ destLen \in 0..MaxDest
    /\ ProgramStart

NextRLE == decodeRLE

SpecRLE == InitRLE /\ [][NextRLE]_vars

(***************************************************************************)
(* The reference reading of an RLE stream (section 4.4 of the             *)
(* specification), used by the claims about decodeRLE                      *)
(***************************************************************************)
RefCount16(f, p) == f[p + 2] * 256 + f[p + 3]

\* the bytes one opcode at offset p occupies, and the bytes it expands to
RefOpSize(f, p) ==
    LET op == f[p + 1]
    IN  IF op <= 126 THEN 2
        ELSE IF op = 127 THEN 4
        ELSE IF op = 128 THEN IF p + 3 <= Len(f) THEN 3 + RefCount16(f, p) ELSE 3
        ELSE 1 + (256 - op)

RefOpRun(f, p) ==
    LET op == f[p + 1]
    IN  IF op <= 126 THEN [k \in 1..(op + 1) |-> f[p + 2]]
        ELSE IF op = 127 THEN [k \in 1..RefCount16(f, p) |-> f[p + 4]]
        ELSE IF op = 128 THEN [k \in 1..RefCount16(f, p) |-> f[p + 3 + k]]
        ELSE [k \in 1..(256 - op) |-> f[p + 1 + k]]

\* the stream from offset p is a sequence of complete opcodes
RECURSIVE RefWellFormed(_, _)
RefWellFormed(f, p) ==
    IF p >= Len(f) THEN p = Len(f)
    ELSE p + RefOpSize(f, p) <= Len(f) /\ RefWellFormed(f, p + RefOpSize(f, p))

\* the expansion of a well-formed stream from offset p
RECURSIVE RefExpand(_, _)
RefExpand(f, p) ==
    IF p >= Len(f) THEN <<>>
    ELSE RefOpRun(f, p) \o RefExpand(f, p + RefOpSize(f, p))

\* every opcode of a well-formed stream starts before n bytes are produced
RECURSIVE RefNoTrailing(_, _, _, _)
RefNoTrailing(f, p, filled, n) ==
    IF p >= Len(f) THEN TRUE
    ELSE filled < n /\ RefNoTrailing(f, p + RefOpSize(f, p), filled + Len(RefOpRun(f, p)), n)

\* the stream ends before its opcodes have supplied n destination bytes
RECURSIVE RefTruncated(_, _, _, _)
RefTruncated(f, p, filled, n) ==
    IF filled >= n THEN FALSE
    ELSE IF p >= Len(f) THEN TRUE
    ELSE IF p + RefOpSize(f, p) > Len(f) THEN TRUE
    ELSE RefTruncated(f, p + RefOpSize(f, p), filled + Len(RefOpRun(f, p)), n)

dest == [k \in 1..destLen |-> At(buffer, k)]

(***************************************************************************)
(* C1                                                                      *)
(***************************************************************************)
\* C1: whenever the input ends before the RLE stream has supplied all len(dest)
\* bytes, decodeRLE returns a non-nil error.
C1_TruncatedIsError ==
    (pc = "rleRet" /\ RefTruncated(file, rleStart, 0, destLen)) => rleErr # "nil"

(***************************************************************************)
(* C4                                                                      *)
(***************************************************************************)
C4_Pre == RefWellFormed(file, rleStart) /\ Len(RefExpand(file, rleStart)) = destLen

C4_Post ==
    /\ pc = "rleRet"
    /\ rleErr = "nil"
    /\ dest = RefExpand(file, rleStart)
    /\ pos = Len(file)

\* C4 as stated: for every stream of complete opcodes whose run lengths sum to
\* len(dest), decodeRLE returns nil, dest is the reference expansion and exactly
\* the bytes of those opcodes are consumed.
C4_Original ==
    (pc \in {"rleRet", "panic"} /\ C4_Pre) => C4_Post

\* C4 amended: the same, for the streams in which every opcode starts before
\* dest is full (no opcode of run length 0 at the end, none at all for an empty dest).
C4_ReferenceExpansion ==
    (pc \in {"rleRet", "panic"} /\ C4_Pre /\ RefNoTrailing(file, rleStart, 0, destLen))
        => C4_Post

C4_Witness ==
    /\ pc = "rleRet" /\ C4_Pre /\ RefNoTrailing(file, rleStart, 0, destLen)
    /\ destLen = 2 /\ Len(file) = 4
    /\ file[1] = 0 /\ file[3] = 255 /\ file[2] # file[4]
    /\ dest = <<file[2], file[4]>>

(***************************************************************************)
(* C2                                                                      *)
(***************************************************************************)
\* C2: once a read has failed, Decode has returned a non-nil error and the zero
\* Canvas; it never returns a nil error after a failed read.
C2_FailedReadAborts ==
    (pc = "done" /\ ioFailed) => (finalErr # "nil" /\ canvas = ZeroCanvas)

(***************************************************************************)
(* C3                                                                      *)
(***************************************************************************)
\* the header at the start of the file has a wrong magic, version or color format
HeaderFault ==
    \/ SubSeq(file, 1, Min(9, Len(file))) # MagicID
    \/ SubSeq(file, 10, Min(13, Len(file))) # Version
    \/ SubSeq(file, 23, Min(26, Len(file))) # B32(rgb)

\* the property at the cursor is a Compression property carrying a byte other than 1
CompressionFault ==
    /\ Avail(file, pos) >= 9
    /\ SubSeq(file, pos + 1, pos + 4) = B32(propCompression)
    /\ file[pos + 9] # rleCompression

\* C3: a wrong magic, version or color format, or a Compression property whose
\* byte is not 1, makes Decode return at that step with a non-nil error and the
\* zero Canvas, no layer offset having been read.
C3_HeaderFaultsFail ==
    [][((pc = "start" /\ HeaderFault) \/ (pc = "props" /\ CompressionFault))
          => /\ pc' = "done"
             /\ finalErr' # "nil"
             /\ canvas' = ZeroCanvas
             /\ layerPointers' = <<>> /\ ptr' = U32Zero /\ layers' = <<>>]_vars

C3_Witness ==
    /\ pc = "done"
    /\ finalErr = "unsupported compression"
    /\ canvas = ZeroCanvas
    /\ Len(file) > HeaderSize + 9
    /\ SubSeq(file, HeaderSize + 1, HeaderSize + 4) = B32(propColormap)

(***************************************************************************)
(* C5                                                                      *)
(***************************************************************************)
\* the property at the cursor is a Colormap property with its count
ColormapAt == Avail(file, pos) >= 12 /\ SubSeq(file, pos + 1, pos + 4) = B32(propColormap)

\* C5: when the loop goes on after a Colormap property, the cursor stands
\* exactly 3 x count bytes after the count, whatever the count and the length.
C5_ColormapSkip ==
    [][(pc = "props" /\ ColormapAt /\ pc' = "props")
          => Exact3(U32At(file, pos + 8)) = <<0, 0, pos' - (pos + 12)>>]_vars

(***************************************************************************)
(* C6                                                                      *)
(***************************************************************************)
\* The layer attributes the property list at offset p stands for: the defaults,
\* each overridden by the last property of its kind; end is the offset after
\* the End tag (-1 when the list runs past the end of the file).
RECURSIVE RefLayerAttrs(_, _, _)
RefLayerAttrs(f, p, a) ==
    IF p + 8 > Len(f) THEN [a EXCEPT !.end = -1]
    ELSE LET tag == SubSeq(f, p + 1, p + 4)
         IN  IF tag = B32(propEnd) THEN [a EXCEPT !.end = p + 8]
             ELSE IF tag = B32(propOffsets) THEN
                 IF p + 16 > Len(f) THEN [a EXCEPT !.end = -1]
                 ELSE RefLayerAttrs(f, p + 16, [a EXCEPT !.x = S32At(f, p + 8),
                                                          !.y = S32At(f, p + 12)])
             ELSE IF tag = B32(propVisible) THEN
                 IF p + 12 > Len(f) THEN [a EXCEPT !.end = -1]
                 ELSE RefLayerAttrs(f, p + 12,
                          [a EXCEPT !.visible = \E k \in 9..12 : f[p + k] # 0])
             ELSE IF tag = B32(propOpacity) THEN
                 IF p + 12 > Len(f) THEN [a EXCEPT !.end = -1]
                 ELSE RefLayerAttrs(f, p + 12, [a EXCEPT !.opacity = f[p + 12]])
             ELSE IF f[p + 5] # 0 \/ f[p + 6] # 0 THEN [a EXCEPT !.end = -1]
             ELSE RefLayerAttrs(f, p + 8 + f[p + 7] * 256 + f[p + 8], a)

RefDefaults == [visible |-> TRUE, opacity |-> 0, x |-> 0, y |-> 0, end |-> 0]

\* C6: when the property loop of loadLayer has read the End tag, Visible, Opacity
\* and the offsets are the defaults overridden by the last property of each kind,
\* every other property was skipped by its declared length, and the image's
\* bounds start at the offsets.
C6_LayerAttributes ==
    /\ pc = "layerPtrs" =>
          LET a == RefLayerAttrs(file, propsStart, RefDefaults)
          IN  /\ layer.Visible = a.visible
              /\ layer.Opacity = a.opacity
              /\ x = a.x /\ y = a.y
              /\ pos = a.end
    /\ pc \in {"tile", "layerDone"} => (rect.MinX = x /\ rect.MinY = y)
    /\ \A k \in 1..Len(layers) : layers[k].Opacity \in 0..255

C6_Witness ==
    /\ pc = "layerDone"
    /\ layer.Opacity = 128 /\ ~layer.Visible
    /\ rect.MinX = 0 /\ rect.MinY = 0
    /\ SubSeq(file, propsStart + 1, propsStart + 12)
           = PropertyBytes(propOpacity, U32(4), B32(384))

(***************************************************************************)
(* C7                                                                      *)
(***************************************************************************)
\* C7: when the RLE decoding of tile k begins, the cursor is at tilePointers[k].
C7_TileFromItsPointer ==
    pc = "rle" => rleStart = Offset(tilePointers[tileY * grid.tileCountX + tileX + 1])

(***************************************************************************)
(* C8                                                                      *)
(***************************************************************************)
\* ceil(u / 64) of a uint32, as an integer
RefCeil64(u) == u[1] * 1024 + ((u[2] + 63) \div 64)

\* the tile grid the claim gives a layer of size W x H
RefGrid(W, H) ==
    [tileCountX |-> RefCeil64(W), tileCountY |-> RefCeil64(H),
     rightMostTileWidth   |-> IF W[2] % 64 = 0 THEN 64 ELSE W[2] % 64,
     bottomMostTileHeight |-> IF H[2] % 64 = 0 THEN 64 ELSE H[2] % 64]

\* the pixels of the tile (tx, ty), of size w x h, hold the planes of data
RefTilePixels(p, data, W, tx, ty, w, h, alpha) ==
    \A i \in 0..(w - 1), j \in 0..(h - 1), c \in 0..3 :
        LET k == 4 * (W * (64 * ty + j) + (64 * tx + i)) + c + 1
        IN  /\ k \in DOMAIN p
            /\ p[k] = IF c = 3 /\ ~alpha THEN 255 ELSE At(data, c * (w * h) + j * w + i + 1)

RefTileUnwritten(p, W, tx, ty, w, h) ==
    \A i \in 0..(w - 1), j \in 0..(h - 1), c \in 0..3 :
        4 * (W * (64 * ty + j) + (64 * tx + i)) + c + 1 \notin DOMAIN p

NonZero(u) == u # U32Zero

\* C8: a layer of W >= 1 by H >= 1 pixels gets ceil(W/64) x ceil(H/64) tiles with
\* the stated edge sizes; a tile whose scratch buffer holds one w x h plane per
\* channel is copied plane by plane into pixels not written before; and at the
\* end every pixel of the layer is written.
C8_TileReassembly ==
    [][/\ (pc = "level" /\ pc' = "tile"
             /\ NonZero(layerHeader.Width) /\ NonZero(layerHeader.Height))
          => grid' = RefGrid(layerHeader.Width, layerHeader.Height)
       /\ (pc = "rleRet" /\ rleErr = "nil"
             /\ destLen = (IF layerHeader.ColorFormat = U32(rgbAlpha) THEN 4 ELSE 3)
                              * TileW(tileX) * TileH(tileY))
          => /\ pc' = "tile"
             /\ RefTileUnwritten(pix, layerHeader.Width[2], tileX, tileY,
                                 TileW(tileX), TileH(tileY))
             /\ RefTilePixels(pix', buffer, layerHeader.Width[2], tileX, tileY,
                              TileW(tileX), TileH(tileY),
                              layerHeader.ColorFormat = U32(rgbAlpha))
       /\ (pc = "tile" /\ pc' = "layerDone"
             /\ NonZero(layerHeader.Width) /\ NonZero(layerHeader.Height)
             /\ hierarchy.BytesPerPixel
                  = U32(IF layerHeader.ColorFormat = U32(rgbAlpha) THEN 4 ELSE 3))
          => /\ layerHeader.Width[1] = 0 /\ layerHeader.Height[1] = 0
             /\ DOMAIN pix = 1..(4 * layerHeader.Width[2] * layerHeader.Height[2])]_vars

(***************************************************************************)
(* C9                                                                      *)
(***************************************************************************)
\* C9: on every input Decode eventually stops (it returns, or it faults).
C9_Terminates == <>(pc \in {"done", "panic"})

(***************************************************************************)
(* C10                                                                     *)
(***************************************************************************)
\* C10: no index of dest, of the scratch buffer or of the pixel array leaves its
\* bounds: Decode never ends by a runtime fault.
C10_NoRuntimeFault == pc # "panic"

=============================================================================
